---- MODULE Spec2Model ----
(***************************************************************************)
(* Model of the mlspace launcher: the command-line spec decoder            *)
(* (cli.h, cli.cc), the base64 codec (base64.h, base64.cc), the job-spec   *)
(* builder (job.cc) and the orchestrator and spawn executor (launch.cc).   *)
(*                                                                         *)
(* A C++ string is a sequence of bytes 0..255.  A std::optional is a       *)
(* record [ok |-> BOOLEAN, val |-> ...].                                   *)
(***************************************************************************)
EXTENDS Integers, Sequences, FiniteSets, TLC

\* ------------------------------------------------------------------------
\* Strings and machine arithmetic
\* ------------------------------------------------------------------------

\* Printable ASCII in code order: codes 32..95 and 97..126 (code 96, the
\* backquote, cannot be written in a string literal and is never needed).
ASCII_lo == " !\"#$%&'()*+,-./0123456789:;<=>?@ABCDEFGHIJKLMNOPQRSTUVWXYZ[\\]^_"

ASCII_hi == "abcdefghijklmnopqrstuvwxyz{|}~"

Ord(c) ==
    IF \E i \in 1..Len(ASCII_lo) : SubSeq(ASCII_lo, i, i) = c
    THEN 31 + (CHOOSE i \in 1..Len(ASCII_lo) : SubSeq(ASCII_lo, i, i) = c)
    ELSE 96 + (CHOOSE i \in 1..Len(ASCII_hi) : SubSeq(ASCII_hi, i, i) = c)

\* The bytes of a string literal.
Str(s) == [i \in 1..Len(s) |-> Ord(SubSeq(s, i, i))]

Pow2(n) == 2 ^ n

\* A uint32_t is the pair <<hi, lo>> of its 16-bit halves.
U32(n) == << (n \div 65536) % 65536, n % 65536 >>

\* w << n on uint32_t, for 0 <= n <= 16.
Shl32(w, n) ==
    IF n >= 16
    THEN << (w[2] * Pow2(n - 16)) % 65536, 0 >>
    ELSE << (w[1] * Pow2(n) + (w[2] \div Pow2(16 - n))) % 65536,
            (w[2] * Pow2(n)) % 65536 >>

RECURSIVE BitOr(_, _)
BitOr(a, b) ==
    IF a = 0 THEN b
    ELSE IF b = 0 THEN a
    ELSE (IF a % 2 = 1 \/ b % 2 = 1 THEN 1 ELSE 0) + 2 * BitOr(a \div 2, b \div 2)

\* a | b on uint32_t.
Or32(a, b) == << BitOr(a[1], b[1]), BitOr(a[2], b[2]) >>

\* (w >> k) & (2^n - 1) on uint32_t, for k + n <= 31.
Bits32(w, k, n) == (((w[1] % 32768) * 65536 + w[2]) \div Pow2(k)) % Pow2(n)

\* The build targets x86_64 Linux, where plain char is signed.
char_is_signed == TRUE

\* static_cast<uint32_t>(c), and the int promotion of c converted to
\* uint32_t, for a char c holding byte b: sign extension when char is signed.
CharToU32(b) == IF char_is_signed /\ b >= 128 THEN << 65535, 65280 + b >> ELSE U32(b)

None == [ok |-> FALSE, val |-> << >>]

Some(v) == [ok |-> TRUE, val |-> v]

\* ------------------------------------------------------------------------
\* Base64 codec
\* ------------------------------------------------------------------------

abc == Str("ABCDEFGHIJKLMNOPQRSTUVWXYZabcdefghijklmnopqrstuvwxyz0123456789+/")

padding == Ord("=")

padding_mask == 254

unknown_mask == 255

\* Base64::Base64: the lookup table.
bits ==
    [ch \in 0..255 |->
        IF ch = padding THEN padding_mask
        ELSE IF \E i \in 1..Len(abc) : abc[i] = ch
             THEN (CHOOSE i \in 1..Len(abc) : abc[i] = ch) - 1
             ELSE unknown_mask]

\* map[*it] for a char *it holding byte b.  The table is indexed by a plain
\* char: a byte >= 128 is a negative char, and the read is out of the
\* table's bounds; it yields whatever byte `wild` lies there.
MapAt(map, b, wild) == IF char_is_signed /\ b >= 128 THEN wild ELSE map[b]

\* len & 0b01000: the mask without its higher bit.
LenHighNarrow(len) == ((len \div 8) % 2) * 8

\* len & 0b11000
LenHigh(len) == ((len \div 8) % 4) * 8

RECURSIVE DecodeQuadFrom(_, _, _, _, _, _, _)
DecodeQuadFrom(map, q, i, len, buf, out, wild) ==
    IF i > Len(q) THEN [ok |-> LenHigh(len) # 0, out |-> out]
    ELSE LET b == MapAt(map, q[i], wild) IN
         IF b = unknown_mask THEN [ok |-> FALSE, out |-> out]
         ELSE IF b = padding_mask THEN [ok |-> LenHigh(len) # 0, out |-> out]
         ELSE LET buf2 == Or32(Shl32(buf, 6), U32(b))
                  len2 == len + 6
                  out2 == IF LenHigh(len2) # 0
                          THEN Append(out, Bits32(buf2, len2 % 8, 8))
                          ELSE out
              IN DecodeQuadFrom(map, q, i + 1, len2, buf2, out2, wild)

\* DecodeQuad over the characters q = [begin, end), appending to out.
DecodeQuad(map, q, out, wild) == DecodeQuadFrom(map, q, 1, 0, U32(0), out, wild)

RECURSIVE DecodeMain(_, _, _, _, _)
DecodeMain(s, k, nquads, out, wild) ==
    IF k > nquads THEN [ok |-> TRUE, out |-> out]
    ELSE LET r == DecodeQuad(bits, SubSeq(s, 4 * (k - 1) + 1, 4 * k), out, wild) IN
         IF ~r.ok THEN [ok |-> FALSE, out |-> out]
         ELSE DecodeMain(s, k + 1, nquads, r.out, wild)

\* Base64::Decode without the test of the length.
DecodeAnyLength(s, wild) ==
    LET length == (3 * Len(s)) \div 4
        main == DecodeMain(s, 1, length \div 3, << >>, wild)
        rem == length % 3
    IN IF ~main.ok THEN None
       ELSE IF rem > 0
       THEN LET tail == DecodeQuad(bits, SubSeq(s, length - rem + 1, Len(s)),
                                   main.out, wild)
            IN IF ~tail.ok THEN None ELSE Some(tail.out)
       ELSE Some(main.out)

\* Base64::Decode.
Decode(s, wild) ==
    IF Len(s) % 4 = 1 THEN None
    ELSE LET length == (3 * Len(s)) \div 4
             main == DecodeMain(s, 1, length \div 3, << >>, wild)
             rem == length % 3
         IN IF ~main.ok THEN None
            ELSE IF rem > 0
            THEN LET tail == DecodeQuad(bits, SubSeq(s, length - rem + 1, Len(s)),
                                        main.out, wild)
                 IN IF ~tail.ok THEN None ELSE Some(tail.out)
            ELSE Some(main.out)

\* abc[(buf >> shift) & 0b11'1111]
AbcAt(buf, shift) == abc[Bits32(buf, shift, 6) + 1]

EncodeQuad(buf) == << AbcAt(buf, 18), AbcAt(buf, 12), AbcAt(buf, 6), AbcAt(buf, 0) >>

RECURSIVE EncodeFrom(_, _, _)
EncodeFrom(s, i, out) ==
    IF i <= 3 * (Len(s) \div 3)
    THEN LET b1 == Shl32(CharToU32(s[i]), 16)
             b2 == Or32(b1, Shl32(CharToU32(s[i + 1]), 8))
             b3 == Or32(b2, Shl32(CharToU32(s[i + 2]), 0))
         IN EncodeFrom(s, i + 3, out \o EncodeQuad(b3))
    ELSE IF i <= Len(s)
    THEN LET b1 == Shl32(CharToU32(s[i]), 16)
             c1 == AbcAt(b1, 18)
         IN IF i + 1 > Len(s)
            THEN out \o << c1, AbcAt(b1, 12), padding, padding >>
            ELSE LET b2 == Or32(b1, Shl32(CharToU32(s[i + 1]), 8))
                 IN out \o << c1, AbcAt(b2, 12), AbcAt(b2, 6), padding >>
    ELSE out

\* Base64::Encode.
Encode(s) == EncodeFrom(s, 1, << >>)

\* ------------------------------------------------------------------------
\* Command-line spec decoder (cli.h, cli.cc)
\* ------------------------------------------------------------------------

opt_version == Str("--spec-version")

opt_sha256sum == Str("--spec-sha256sum")

opt_num_chunks == Str("--spec-num-chunks")

opt_chunk_ == Str("--spec-chunk-")

\* std::string_view::npos, and offsets counted from 0 as in the source.
npos == -1

StartsWith(s, p) == Len(s) >= Len(p) /\ SubSeq(s, 1, Len(p)) = p

FindFirstOf(s, ch) ==
    IF \E i \in 1..Len(s) : s[i] = ch
    THEN (CHOOSE i \in 1..Len(s) : s[i] = ch /\ \A j \in 1..(i - 1) : s[j] # ch) - 1
    ELSE npos

\* s.substr(pos)
Substr(s, pos) == SubSeq(s, pos + 1, Len(s))

IsDigit(b) == b >= 48 /\ b <= 57

\* Number of leading decimal digits of sv.
RECURSIVE DigitRun(_, _)
DigitRun(sv, i) == IF i <= Len(sv) /\ IsDigit(sv[i]) THEN DigitRun(sv, i + 1) ELSE i - 1

RECURSIVE StripZeros(_)
StripZeros(d) == IF Len(d) > 1 /\ d[1] = 48 THEN StripZeros(Tail(d)) ELSE d

RECURSIVE DecValue(_, _)
DecValue(d, acc) == IF d = << >> THEN acc ELSE DecValue(Tail(d), 10 * acc + (d[1] - 48))

\* Lexicographic d > e for digit strings of equal length.
RECURSIVE DigitsGreater(_, _)
DigitsGreater(d, e) ==
    IF d = << >> THEN FALSE
    ELSE IF d[1] # e[1] THEN d[1] > e[1]
    ELSE DigitsGreater(Tail(d), Tail(e))

\* 2^64 - 1, the largest uint64_t / size_t.
UINT64_MAX_digits == Str("18446744073709551615")

ExceedsUint64(d) ==
    LET z == StripZeros(d) IN
    \/ Len(z) > Len(UINT64_MAX_digits)
    \/ Len(z) = Len(UINT64_MAX_digits) /\ DigitsGreater(z, UINT64_MAX_digits)

\* std::from_chars(first, last, value) on an unsigned 64-bit value: ptr is the
\* number of characters consumed; value is written whenever a number in range
\* was read, even if characters follow it, and is left alone otherwise.
\* (The decimal value is held exactly as long as it fits the model's integers,
\* which every in-range token of the input sets does.)
FromChars(sv, value) ==
    CHOOSE out \in
        { IF n = 0 THEN [ptr |-> 0, ec |-> "invalid_argument", value |-> value]
          ELSE IF ExceedsUint64(SubSeq(sv, 1, n))
          THEN [ptr |-> n, ec |-> "result_out_of_range", value |-> value]
          ELSE [ptr |-> n, ec |-> "ok", value |-> DecValue(StripZeros(SubSeq(sv, 1, n)), 0)]
          : n \in { DigitRun(sv, 1) } } : TRUE

\* Uint64Parser::Parse, with the parser's fields value and parsed passed in
\* and returned: advanced is the int it returns.
Uint64Parser_Parse(option, value, parsed, args, curr) ==
    LET arg == args[curr]
        length == Len(option)
        miss == [advanced |-> 0, value |-> value, parsed |-> parsed]
        Convert(sv, advanced) ==
            CHOOSE out \in
                { IF r.ptr # Len(sv) \/ r.ec # "ok"
                  THEN [advanced |-> 0, value |-> r.value, parsed |-> parsed]
                  ELSE [advanced |-> advanced + 1, value |-> r.value, parsed |-> TRUE]
                  : r \in { FromChars(sv, value) } } : TRUE
    IN IF Len(arg) = length
       THEN IF curr + 1 > Len(args) THEN miss ELSE Convert(args[curr + 1], 1)
       ELSE IF arg[length + 1] = Ord("=")
       THEN Convert(Substr(arg, length), 0)
       ELSE miss

\* Uint64Parser::operator().
Uint64Parser(option, value, parsed, args, curr) ==
    IF ~StartsWith(args[curr], option)
    THEN [advanced |-> 0, value |-> value, parsed |-> parsed]
    ELSE Uint64Parser_Parse(option, value, parsed, args, curr)

\* SHA256SumParser::Parse.
SHA256SumParser_Parse(option, sha256sum, parsed, args, curr) ==
    LET arg == args[curr]
        length == Len(option)
        miss == [advanced |-> 0, sha256sum |-> sha256sum, parsed |-> parsed]
    IN IF Len(arg) = length
       THEN IF curr + 1 > Len(args) THEN miss
            ELSE [advanced |-> 2, sha256sum |-> args[curr + 1], parsed |-> TRUE]
       ELSE IF arg[length + 1] = Ord("=")
       THEN [advanced |-> 1, sha256sum |-> Substr(arg, length + 1), parsed |-> TRUE]
       ELSE miss

\* SHA256SumParser::operator().
SHA256SumParser(option, sha256sum, parsed, args, curr) ==
    IF ~StartsWith(args[curr], option)
    THEN [advanced |-> 0, sha256sum |-> sha256sum, parsed |-> parsed]
    ELSE SHA256SumParser_Parse(option, sha256sum, parsed, args, curr)

\* ChunkParser::Parse.  indices holds the pairs <<index, arrival position>>.
ChunkParser_Parse(option, chunks, indices, parsed, args, curr) ==
    LET arg == args[curr]
        length == Len(option)
        miss == [advanced |-> 0, chunks |-> chunks, indices |-> indices, parsed |-> parsed]
        Take(sv, to, advanced) ==
            CHOOSE out \in
                { IF r.ptr # to - length \/ r.ec # "ok" THEN miss
                  ELSE [advanced |-> advanced + 1,
                        chunks |-> Append(chunks, sv),
                        indices |-> Append(indices, << r.value, Len(indices) >>),
                        parsed |-> TRUE]
                  : r \in { FromChars(SubSeq(arg, length + 1, to), 0) } } : TRUE
    IN CHOOSE out \in
        { IF offset = npos
          THEN IF curr + 1 > Len(args) THEN miss ELSE Take(args[curr + 1], Len(arg), 1)
          ELSE Take(Substr(arg, offset + 1), offset, 0)
          : offset \in { FindFirstOf(arg, Ord("=")) } } : TRUE

\* ChunkParser::operator().
ChunkParser(option, chunks, indices, parsed, args, curr) ==
    IF ~StartsWith(args[curr], option)
    THEN [advanced |-> 0, chunks |-> chunks, indices |-> indices, parsed |-> parsed]
    ELSE ChunkParser_Parse(option, chunks, indices, parsed, args, curr)

\* std::pair's operator<.
PairLess(p, q) == p[1] < q[1] \/ (p[1] = q[1] /\ p[2] < q[2])

\* std::sort on a vector of pairs.
RECURSIVE SortPairs(_)
SortPairs(v) ==
    IF v = << >> THEN << >>
    ELSE LET m == CHOOSE i \in 1..Len(v) : \A j \in 1..Len(v) : ~PairLess(v[j], v[i])
         IN << v[m] >> \o SortPairs(SubSeq(v, 1, m - 1) \o SubSeq(v, m + 1, Len(v)))

\* A contiguity loop that rejects an index above its place only, so that a
\* repeated index passes.
ContiguousUpTo(sorted) == \A ix \in 1..Len(sorted) : sorted[ix][1] <= ix - 1

\* The contiguity loop of ChunkParser::Finalize over the sorted indices.
Contiguous(sorted) == \A ix \in 1..Len(sorted) : sorted[ix][1] = ix - 1

\* std::swap(chunks[a], chunks[b]) with a, b counted from 0.
SwapAt(chunks, a, b) ==
    [chunks EXCEPT ![a + 1] = chunks[b + 1], ![b + 1] = chunks[a + 1]]

\* The permutation loop of ChunkParser::Finalize.
RECURSIVE ApplyPermutation(_, _, _)
ApplyPermutation(chunks, sorted, k) ==
    IF k > Len(sorted) THEN chunks
    ELSE IF sorted[k][2] > sorted[k][1]
    THEN ApplyPermutation(SwapAt(chunks, sorted[k][1], sorted[k][2]), sorted, k + 1)
    ELSE ApplyPermutation(chunks, sorted, k + 1)

\* ChunkParser::Finalize.
Finalize(chunks, indices) ==
    CHOOSE out \in
        { IF ~Contiguous(sorted)
          THEN [ok |-> FALSE, chunks |-> chunks, indices |-> sorted]
          ELSE [ok |-> TRUE, chunks |-> ApplyPermutation(chunks, sorted, 1),
                indices |-> sorted]
          : sorted \in { SortPairs(indices) } } : TRUE

\* The state Spec::FromArgs builds: the Spec under construction and the
\* private fields of the four parsers.
NewScan ==
    [version |-> 0, num_chunks |-> 0, chunks |-> << >>, sha256sum |-> << >>,
     indices |-> << >>,
     parsed |-> [version |-> FALSE, num_chunks |-> FALSE, chunk |-> FALSE,
                 sha256sum |-> FALSE]]

\* The body of the scan loop for the argument at curr: the parsers are tried
\* in their order of registration until one reports an advance.  A parser
\* that does not match may still have written through its references, so its
\* fields are carried to the next parser.  (r is what the parser returns and
\* s the fields after it; each is one value, bound once.)
TrySHA256Sum(sc, args, curr) ==
    CHOOSE out \in
        { [advanced |-> r.advanced,
           matcher |-> IF r.advanced > 0 THEN "sha256sum" ELSE "none",
           sc |-> [sc EXCEPT !.sha256sum = r.sha256sum, !.parsed.sha256sum = r.parsed]]
          : r \in { SHA256SumParser(opt_sha256sum, sc.sha256sum, sc.parsed.sha256sum,
                                    args, curr) } } : TRUE

TryChunk(sc, args, curr) ==
    CHOOSE out \in UNION
        { { IF r.advanced > 0
            THEN [advanced |-> r.advanced, matcher |-> "chunk", sc |-> s]
            ELSE TrySHA256Sum(s, args, curr)
            : s \in { [sc EXCEPT !.chunks = r.chunks, !.indices = r.indices,
                                 !.parsed.chunk = r.parsed] } }
          : r \in { ChunkParser(opt_chunk_, sc.chunks, sc.indices, sc.parsed.chunk,
                                args, curr) } } : TRUE

TryNumChunks(sc, args, curr) ==
    CHOOSE out \in UNION
        { { IF r.advanced > 0
            THEN [advanced |-> r.advanced, matcher |-> "num_chunks", sc |-> s]
            ELSE TryChunk(s, args, curr)
            : s \in { [sc EXCEPT !.num_chunks = r.value, !.parsed.num_chunks = r.parsed] } }
          : r \in { Uint64Parser(opt_num_chunks, sc.num_chunks, sc.parsed.num_chunks,
                                 args, curr) } } : TRUE

TryParsers(sc, args, curr) ==
    CHOOSE out \in UNION
        { { IF r.advanced > 0
            THEN [advanced |-> r.advanced, matcher |-> "version", sc |-> s]
            ELSE TryNumChunks(s, args, curr)
            : s \in { [sc EXCEPT !.version = r.value, !.parsed.version = r.parsed] } }
          : r \in { Uint64Parser(opt_version, sc.version, sc.parsed.version,
                                 args, curr) } } : TRUE

\* A loop body that leaves the cursor where it is, whatever was consumed.
AdvanceNot(it, advanced) == it

\* The cursor after the loop body: it += advanced - 1 when a parser matched.
Advance(it, advanced) == IF advanced > 0 THEN it + (advanced - 1) ELSE it

\* A check after the scan that requires the chunk count only, and no chunk
\* flag.
ValidateCountOnly(sc) ==
    IF ~sc.parsed.num_chunks THEN [ok |-> FALSE, sc |-> sc]
    ELSE IF sc.num_chunks # Len(sc.chunks) THEN [ok |-> FALSE, sc |-> sc]
    ELSE CHOOSE out \in
            { [ok |-> f.ok, sc |-> [sc EXCEPT !.chunks = f.chunks, !.indices = f.indices]]
              : f \in { Finalize(sc.chunks, sc.indices) } } : TRUE

\* A check after the scan that requires the chunk flags only.
ValidateChunksOnly(sc) ==
    IF ~sc.parsed.chunk THEN [ok |-> FALSE, sc |-> sc]
    ELSE IF sc.num_chunks # Len(sc.chunks) THEN [ok |-> FALSE, sc |-> sc]
    ELSE CHOOSE out \in
            { [ok |-> f.ok, sc |-> [sc EXCEPT !.chunks = f.chunks, !.indices = f.indices]]
              : f \in { Finalize(sc.chunks, sc.indices) } } : TRUE

\* The part of Spec::FromArgs after the scan: required options, chunk count,
\* Finalize.  ok is whether a Spec is returned.
Validate(sc) ==
    IF ~sc.parsed.num_chunks \/ ~sc.parsed.chunk THEN [ok |-> FALSE, sc |-> sc]
    ELSE IF sc.num_chunks # Len(sc.chunks) THEN [ok |-> FALSE, sc |-> sc]
    ELSE CHOOSE out \in
            { [ok |-> f.ok, sc |-> [sc EXCEPT !.chunks = f.chunks, !.indices = f.indices]]
              : f \in { Finalize(sc.chunks, sc.indices) } } : TRUE

\* The Spec value returned (std::nullopt as None).
SpecOf(v) ==
    IF v.ok
    THEN Some([version |-> v.sc.version, num_chunks |-> v.sc.num_chunks,
               chunks |-> v.sc.chunks, sha256sum |-> v.sc.sha256sum])
    ELSE None

\* The scan loop: it is the position of the iterator, argv[0] at position 1.
RECURSIVE ScanFrom(_, _, _)
ScanFrom(sc, args, it) ==
    IF it + 1 > Len(args) THEN sc
    ELSE LET r == TryParsers(sc, args, it + 1) IN
         ScanFrom(r.sc, args, Advance(it + 1, r.advanced))

\* Spec::FromArgs as a function of the argument vector.
FromArgs(args) == SpecOf(Validate(ScanFrom(NewScan, args, 1)))

\* ------------------------------------------------------------------------
\* Job-spec builder (job.cc)
\* ------------------------------------------------------------------------

\* A JSON value of the JSON library is [t |-> type, v |-> content]: a string
\* holds its bytes, an array a sequence of values, an object a function from
\* its keys to values.
NoKeys == [k \in {} |-> 0]

JNull == [t |-> "null", n |-> 0, s |-> << >>, a |-> << >>, o |-> NoKeys]

JDiscarded == [JNull EXCEPT !.t = "discarded"]

JNum(n) == [JNull EXCEPT !.t = "number", !.n = n]

JStr(s) == [JNull EXCEPT !.t = "string", !.s = Str(s)]

JArr(a) == [JNull EXCEPT !.t = "array", !.a = a]

JObj(f) == [JNull EXCEPT !.t = "object", !.o = f]

\* json.contains(key)
Contains(json, key) == json.t = "object" /\ key \in DOMAIN json.o

\* Job job; as default-constructed.
NewJob == [executable |-> << >>, args |-> << >>, env |-> [k \in {} |-> << >>],
           work_dir |-> None]

JsonPathInto(json, key, path) ==
    IF ~Contains(json, key) THEN [ret |-> FALSE, val |-> path]
    ELSE IF json.o[key].t # "string" THEN [ret |-> TRUE, val |-> path]
    ELSE [ret |-> TRUE, val |-> Some(json.o[key].s)]

JsonStringInto(json, key, val) ==
    IF ~Contains(json, key) THEN [ret |-> FALSE, val |-> val]
    ELSE IF json.o[key].t # "string" THEN [ret |-> FALSE, val |-> val]
    ELSE [ret |-> TRUE, val |-> json.o[key].s]

\* get<std::vector<std::string>>() throws when an element is not a string.
JsonVectorInto(json, key, val) ==
    IF ~Contains(json, key) THEN [ret |-> FALSE, val |-> val, threw |-> FALSE]
    ELSE IF json.o[key].t # "array" THEN [ret |-> FALSE, val |-> val, threw |-> FALSE]
    ELSE IF \E i \in 1..Len(json.o[key].a) : json.o[key].a[i].t # "string"
    THEN [ret |-> FALSE, val |-> val, threw |-> TRUE]
    ELSE [ret |-> TRUE, val |-> [i \in 1..Len(json.o[key].a) |-> json.o[key].a[i].s],
          threw |-> FALSE]

\* get<std::unordered_map<std::string, std::string>>() throws when a member
\* is not a string.
JsonDictInto(json, key, val) ==
    IF ~Contains(json, key) THEN [ret |-> FALSE, val |-> val, threw |-> FALSE]
    ELSE IF json.o[key].t # "object" THEN [ret |-> FALSE, val |-> val, threw |-> FALSE]
    ELSE IF \E k \in DOMAIN json.o[key].o : json.o[key].o[k].t # "string"
    THEN [ret |-> FALSE, val |-> val, threw |-> TRUE]
    ELSE [ret |-> TRUE, val |-> [k \in DOMAIN json.o[key].o |-> json.o[key].o[k].s],
          threw |-> FALSE]

\* The payload documents of the model: the text of each and the value the
\* JSON library parses it to.
Documents ==
    { [text |-> Str("{\"executable\":\"e\",\"args\":[\"a\"],\"env\":{\"K\":\"v\"},\"work_dir\":null}"),
       json |-> JObj([executable |-> JStr("e"), args |-> JArr(<< JStr("a") >>),
                      env |-> JObj([K |-> JStr("v")]), work_dir |-> JNull])],
      [text |-> Str("{\"executable\":\"e\",\"args\":[\"a\"],\"env\":{\"K\":\"v\"}}"),
       json |-> JObj([executable |-> JStr("e"), args |-> JArr(<< JStr("a") >>),
                      env |-> JObj([K |-> JStr("v")])])],
      [text |-> Str("{\"executable\":\"e\",\"args\":[],\"env\":{},\"work_dir\":\"w\"}"),
       json |-> JObj([executable |-> JStr("e"), args |-> JArr(<< >>),
                      env |-> JObj(NoKeys), work_dir |-> JStr("w")])],
      [text |-> Str("{\"executable\":\"e\",\"args\":[],\"env\":{\"K\":\"v\",\"H\":\"\"},\"work_dir\":null}"),
       json |-> JObj([executable |-> JStr("e"), args |-> JArr(<< >>),
                      env |-> JObj([K |-> JStr("v"), H |-> JStr("")]), work_dir |-> JNull])],
      [text |-> Str("{\"args\":[],\"env\":{},\"work_dir\":null}"),
       json |-> JObj([args |-> JArr(<< >>), env |-> JObj(NoKeys), work_dir |-> JNull])],
      [text |-> Str("{\"executable\":"),
       json |-> JDiscarded] }

\* nlohmann::json::parse(str, nullptr, false): a text that is no document of
\* the model is not JSON.
JsonParse(str) ==
    IF \E d \in Documents : d.text = str
    THEN (CHOOSE d \in Documents : d.text = str).json
    ELSE JDiscarded

\* Job::FromJSON after the parse: outcome is "job" (val is the Job),
\* "nullopt", or "terminate" (an exception of the JSON library leaves main).
FromValue(json) ==
    IF json.t = "discarded" THEN [outcome |-> "nullopt", val |-> NewJob]
    ELSE IF ~JsonStringInto(json, "executable", NewJob.executable).ret
    THEN [outcome |-> "nullopt", val |-> NewJob]
    ELSE IF JsonVectorInto(json, "args", NewJob.args).threw
    THEN [outcome |-> "terminate", val |-> NewJob]
    ELSE IF ~JsonVectorInto(json, "args", NewJob.args).ret
    THEN [outcome |-> "nullopt", val |-> NewJob]
    ELSE IF JsonDictInto(json, "env", NewJob.env).threw
    THEN [outcome |-> "terminate", val |-> NewJob]
    ELSE IF ~JsonDictInto(json, "env", NewJob.env).ret
    THEN [outcome |-> "nullopt", val |-> NewJob]
    ELSE IF ~JsonPathInto(json, "work_dir", NewJob.work_dir).ret
    THEN [outcome |-> "nullopt", val |-> NewJob]
    ELSE [outcome |-> "job",
          val |-> [executable |-> JsonStringInto(json, "executable", NewJob.executable).val,
                   args |-> JsonVectorInto(json, "args", NewJob.args).val,
                   env |-> JsonDictInto(json, "env", NewJob.env).val,
                   work_dir |-> JsonPathInto(json, "work_dir", NewJob.work_dir).val]]

\* Job::FromJSON.
FromJSON(str) == FromValue(JsonParse(str))

\* ------------------------------------------------------------------------
\* Spawn executor (launch.cc)
\* ------------------------------------------------------------------------

\* The null pointer ending a char* vector: no string.
nullptr == << -1 >>

\* All orders in which the keys S may be visited.
Orderings(S) ==
    { o \in [1..Cardinality(S) -> S] : \A i, j \in 1..Cardinality(S) : i # j => o[i] # o[j] }

\* The args vector Spawn builds.
SpawnArgs(job) == << job.executable >> \o job.args \o << nullptr >>

\* The key of an environ entry: the text before its first '='.
EnvKey(entry) ==
    LET offset == FindFirstOf(entry, Ord("=")) IN
    IF offset # npos THEN SubSeq(entry, 1, offset) ELSE entry

\* job.env.contains(key)
EnvContains(env, key) == \E k \in DOMAIN env : Str(k) = key

\* An inheritance that drops nothing: the parent's entries are added to
\* those of the job.
InheritedAll(env, parent) == parent

RECURSIVE Inherited(_, _)
Inherited(env, parent) ==
    IF parent = << >> THEN << >>
    ELSE IF ~EnvContains(env, EnvKey(Head(parent)))
    THEN << Head(parent) >> \o Inherited(env, Tail(parent))
    ELSE Inherited(env, Tail(parent))

\* The env vector Spawn builds: the entries of job.env in the order `order`
\* in which the unordered map is iterated, then the entries of the parent's
\* environ whose key job.env does not hold, then the terminator.
SpawnEnv(job, order, parent) ==
    [i \in 1..Len(order) |-> Str(order[i]) \o << Ord("=") >> \o job.env[order[i]]]
        \o Inherited(job.env, parent) \o << nullptr >>

\* ------------------------------------------------------------------------
\* State
\* ------------------------------------------------------------------------

VARIABLES
    args,           \* the argument vector given to Run, argv[0] first
    environ,        \* the environment of the launcher process
    wild,           \* the byte an out-of-bounds read of the table yields
    pc,             \* where the launcher process is
    it,             \* Spec::FromArgs: position of the scan iterator
    version,        \* spec.version
    num_chunks,     \* spec.num_chunks
    chunks,         \* spec.chunks
    sha256sum,      \* spec.sha256sum
    indices,        \* ChunkParser::indices
    parsed,         \* the parsed field of each parser
    step,           \* the last pass of the scan loop: argument, parser, advance
    recognised,     \* the <<index, value>> of each chunk flag matched, in arrival order
    matchers,       \* the parsers that have matched an argument
    returned,       \* what Spec::FromArgs returned: "none" yet, "spec", "nullopt"
    decoded_chunk,  \* Run: the optional returned by Base64::Decode
    deref,          \* Run: the string *decoded_chunk yields
    handed,         \* the string Job::FromJSON was called with
    built,          \* the outcome of Job::FromJSON
    job,            \* Run: the Job
    spawned,        \* Spawn: the args and env vectors
    ret,            \* Spawn: the value Exec returned
    cwd,            \* the launcher's current directory
    curr_dir,       \* Spawn: the directory saved before the change
    child,          \* the forked process
    did,            \* the system calls made by the launcher or its child, the failed ones,
                    \* and whether waitpid returned the child's status
    exit_code,      \* the exit code of the launcher process, once it has one
    input,          \* codec: the bytes to encode or the text to decode
    encoded,        \* codec: Encode(input)
    decoded,        \* codec: Decode of the text, or of the encoded bytes
    stripped,       \* codec: Decode of the text without its trailing padding
    payload         \* job builder: the parsed JSON value

scanVars == << it, version, num_chunks, chunks, sha256sum, indices, parsed, step,
               recognised, matchers, returned >>

runVars == << decoded_chunk, deref, handed, built, job, spawned, ret, cwd, curr_dir,
              child, did, exit_code >>

codecVars == << input, encoded, decoded, stripped >>

inputVars == << args, environ, wild, payload >>

vars == << inputVars, pc, scanVars, runVars, codecVars >>

\* The scan state held in the variables.
Scan ==
    [version |-> version, num_chunks |-> num_chunks, chunks |-> chunks,
     sha256sum |-> sha256sum, indices |-> indices, parsed |-> parsed]

\* A result not computed yet, and a computed optional.
Unset == [done |-> FALSE, ok |-> FALSE, val |-> << >>]

Done(r) == [done |-> TRUE, ok |-> r.ok, val |-> r.val]

NoChild == [state |-> "none", code |-> 0, cwd |-> << >>, exe |-> << >>,
            argv |-> << >>, env |-> << >>]

\* ------------------------------------------------------------------------
\* Bounds and input sets
\* ------------------------------------------------------------------------

\* Most chunk flags on a command line; chunk indices range over 0..MaxChunks.
MaxChunks == 3

\* Most pieces a payload is split into.
MaxParts == 2

\* Longest byte string encoded.
MaxBytes == 4

\* Most whole quadruples of a text decoded before its last group.
MaxQuads == 1

SeqsUpTo(S, n) == UNION { [1..k -> S] : k \in 0..n }

Last(s) == s[Len(s)]

RECURSIVE Flatten(_)
Flatten(ss) == IF ss = << >> THEN << >> ELSE Head(ss) \o Flatten(Tail(ss))

\* One decimal digit.
Digit(n) == << 48 + n >>

\* A flag in its split form (--opt value) and its joined form (--opt=value).
Flag(opt, value, form) ==
    IF form = "split" THEN << opt, value >> ELSE << opt \o Str("=") \o value >>

Forms == { "split", "joined" }

\* The value carried by the k-th chunk flag on the command line: "A", "B", ...
ChunkValue(k) == << 64 + k >>

\* The chunk flags with the indices order[1], order[2], ... in that order.
ChunkFlags(order, form) ==
    Flatten([k \in 1..Len(order) |->
                Flag(opt_chunk_ \o Digit(order[k]), ChunkValue(k), form)])

\* The --spec-num-chunks flag, or none.
Declarations ==
    { << >> } \cup { Flag(opt_num_chunks, Digit(n), f) : n \in 0..MaxChunks, f \in Forms }

\* What else is on the command line: argv[0], arguments before the
\* declaration and arguments after the chunk flags.
Plain == [prog |-> Str("launch"), front |-> << >>, back |-> << >>]

Extras ==
    { Plain,
      [Plain EXCEPT !.prog = Str("--spec-chunk-0=P")],
      [Plain EXCEPT !.front = Flag(opt_version, Str("1"), "split")],
      [Plain EXCEPT !.front = Flag(opt_version, Str("1"), "joined")],
      [Plain EXCEPT !.front = Flag(opt_sha256sum, Str("ab"), "split")],
      [Plain EXCEPT !.front = Flag(opt_sha256sum, Str("ab"), "joined")],
      [Plain EXCEPT !.front = << Str("x") >>],
      [Plain EXCEPT !.front = << Str("--spec-chunk-x=P") >>],
      [Plain EXCEPT !.back = Flag(opt_num_chunks, Str("2x"), "split")],
      [Plain EXCEPT !.back = Flag(opt_version, Str("99999999999999999999"), "split")],
      [Plain EXCEPT !.back = << opt_num_chunks >>],
      [Plain EXCEPT !.back = << opt_chunk_ \o Str("0") >>] }

\* The command lines with up to two chunk flags and each of the other
\* arguments.
ScanVectors ==
    { << e.prog >> \o e.front \o d \o ChunkFlags(order, f) \o e.back :
        e \in Extras, d \in Declarations,
        order \in SeqsUpTo(0..MaxChunks, 2), f \in Forms }

\* The command lines: every order of up to MaxChunks chunk flags on a plain
\* command line, and up to two chunk flags with each of the other arguments.
ArgVectors ==
    { << e.prog >> \o e.front \o d \o ChunkFlags(order, f) \o e.back :
        e \in { Plain }, d \in Declarations,
        order \in SeqsUpTo(0..MaxChunks, MaxChunks), f \in Forms }
    \cup ScanVectors

\* Cut s into pieces of size characters.
RECURSIVE SplitEvery(_, _)
SplitEvery(s, size) ==
    IF Len(s) <= size THEN << s >>
    ELSE << SubSeq(s, 1, size) >> \o SplitEvery(SubSeq(s, size + 1, Len(s)), size)

\* The pieces of the base64 text b when cut into n pieces of whole quads.
Pieces(b, n) == SplitEvery(b, 4 * ((Len(b) \div 4 + n - 1) \div n))

\* What may be wrong with the command line: a first chunk with a foreign
\* character or of a length no text has, or no --spec-num-chunks flag.
Damages == { "none", "badchar", "short", "undeclared" }

Damage(c, how) ==
    IF how = "badchar" THEN << Ord("!") >> \o Tail(c)
    ELSE IF how = "short" THEN SubSeq(c, 1, Len(c) - 3)
    ELSE c

\* The command line the scheduler client builds for a payload document.
\* The --spec-sha256sum flag of a command line: none, or one whose value is
\* no SHA-256 digest of anything.
Checksums == { << >>, Flag(opt_sha256sum, Str("ab"), "split") }

RunVector(text, n, how, form, sum) ==
    LET p == Pieces(Encode(text), n)
        c == [k \in 1..Len(p) |-> IF k = 1 THEN Damage(p[k], how) ELSE p[k]]
    IN << Str("launch") >>
        \o Flag(opt_version, Str("1"), "split")
        \o (IF how = "undeclared" THEN << >>
            ELSE Flag(opt_num_chunks, Digit(Len(c)), "split"))
        \o sum
        \o Flatten([k \in 1..Len(c) |-> Flag(opt_chunk_ \o Digit(k - 1), c[k], form)])

RunVectors ==
    { RunVector(d.text, n, how, f, sum) :
        d \in Documents, n \in 1..MaxParts, how \in Damages, f \in Forms,
        sum \in Checksums }

Environs == { << >>, << Str("K=p"), Str("H=h") >>, << Str("N"), Str("K="), Str("P=p=q") >> }

\* What a read through a disengaged optional may find.
Garbage == { << >>, Str("{\"executable\":\"e\",\"args\":[],\"env\":{},\"work_dir\":\"w\"}") }

\* Exit statuses of a job.
ExitStatuses == { 0, 1, 2, 255 }

SampleBytes == { 0, 107, 128, 255 }

SampleChars == { Ord("A"), Ord("/"), Ord("="), Ord("!"), 200 }

\* What the out-of-bounds read of the table may find: the mark of an unknown
\* character, the mark of the padding, or the number of an alphabet character.
Wilds == { unknown_mask, padding_mask, 0 }

SampleQuads == { Str("AAAA"), Str("////"), Str("AA=="), Str("A!AA") }

\* The texts decoded: up to MaxQuads quadruples and a last group of up to
\* four characters.
Texts ==
    { Flatten(q) \o t : q \in SeqsUpTo(SampleQuads, MaxQuads), t \in SeqsUpTo(SampleChars, 4) }

CodecInputs ==
    { [kind |-> "bytes", s |-> b] : b \in SeqsUpTo(SampleBytes, MaxBytes) }
        \cup { [kind |-> "text", s |-> x] : x \in Texts }

\* JSON payloads of every shape of each field.
Fields(name, values) == { [k \in {} |-> JNull] } \cup { [k \in { name } |-> v] : v \in values }

Merge(f, g) == [k \in DOMAIN f \cup DOMAIN g |-> IF k \in DOMAIN f THEN f[k] ELSE g[k]]

Payloads ==
    { JObj(Merge(Merge(e, a), Merge(n, w))) :
        e \in Fields("executable", { JStr("e"), JStr(""), JNum(1), JNull }),
        a \in Fields("args", { JArr(<< >>), JArr(<< JStr("a") >>), JArr(<< JNum(1) >>), JStr("a") }),
        n \in Fields("env", { JObj(NoKeys), JObj([K |-> JStr("v")]), JObj([K |-> JNum(1)]), JArr(<< >>) }),
        w \in Fields("work_dir", { JNull, JStr("w"), JNum(1) }) }
        \cup { JArr(<< >>), JNum(1), JDiscarded }

\* ------------------------------------------------------------------------
\* Initial states
\* ------------------------------------------------------------------------

ScanInit ==
    /\ it = 1
    /\ version = NewScan.version
    /\ num_chunks = NewScan.num_chunks
    /\ chunks = NewScan.chunks
    /\ sha256sum = NewScan.sha256sum
    /\ indices = NewScan.indices
    /\ parsed = NewScan.parsed
    /\ step = [at |-> 0, matcher |-> "none", advanced |-> 0]
    /\ recognised = << >>
    /\ matchers = {}
    /\ returned = "none"

RunInit ==
    /\ decoded_chunk = Unset
    /\ deref = None
    /\ handed = None
    /\ built = "none"
    /\ job = NewJob
    /\ spawned = [args |-> << >>, env |-> << >>]
    /\ ret = 0
    /\ cwd = Str("/home")
    /\ curr_dir = << >>
    /\ child = NoChild
    /\ did = [chdir |-> FALSE, fork |-> FALSE, exec |-> FALSE, wait |-> FALSE,
              restore |-> FALSE, failed |-> {}]
    /\ exit_code = None

CodecInit ==
    /\ encoded = Unset
    /\ decoded = Unset
    /\ stripped = Unset

\* Spec::FromArgs on a command line.
InitArgs ==
    /\ args \in ArgVectors
    /\ environ = << >>
    /\ wild = unknown_mask
    /\ payload = JNull
    /\ input = [kind |-> "none", s |-> << >>]
    /\ pc = "scan"
    /\ ScanInit /\ RunInit /\ CodecInit

\* Spec::FromArgs on a command line with few chunk flags.
InitScan ==
    /\ args \in ScanVectors
    /\ environ = << >>
    /\ wild = unknown_mask
    /\ payload = JNull
    /\ input = [kind |-> "none", s |-> << >>]
    /\ pc = "scan"
    /\ ScanInit /\ RunInit /\ CodecInit

\* The launcher started by the scheduler.
InitRun ==
    /\ args \in RunVectors
    /\ environ \in Environs
    /\ wild = unknown_mask
    /\ payload = JNull
    /\ input = [kind |-> "none", s |-> << >>]
    /\ pc = "scan"
    /\ ScanInit /\ RunInit /\ CodecInit

\* The codec on its own.
InitCodec ==
    /\ args = << Str("launch") >>
    /\ environ = << >>
    /\ wild \in Wilds
    /\ payload = JNull
    /\ input \in CodecInputs
    /\ pc = "codec"
    /\ ScanInit /\ RunInit /\ CodecInit

\* The job builder on its own.
InitJob ==
    /\ args = << Str("launch") >>
    /\ environ = << >>
    /\ wild = unknown_mask
    /\ payload \in Payloads
    /\ input = [kind |-> "none", s |-> << >>]
    /\ pc = "value"
    /\ ScanInit /\ RunInit /\ CodecInit

\* ------------------------------------------------------------------------
\* Spec::FromArgs
\* ------------------------------------------------------------------------

\* One pass of the scan loop: ++it is not the end, the parsers are tried on
\* the argument, and the iterator is advanced.
ScanArg ==
    /\ pc = "scan"
    /\ it + 1 <= Len(args)
    /\ \E r \in { TryParsers(Scan, args, it + 1) } :
        /\ version' = r.sc.version
        /\ num_chunks' = r.sc.num_chunks
        /\ chunks' = r.sc.chunks
        /\ sha256sum' = r.sc.sha256sum
        /\ indices' = r.sc.indices
        /\ parsed' = r.sc.parsed
        /\ it' = Advance(it + 1, r.advanced)
        /\ step' = [at |-> it + 1, matcher |-> r.matcher, advanced |-> r.advanced]
        /\ recognised' =
            IF r.matcher = "chunk"
            THEN Append(recognised, << Last(r.sc.indices)[1], Last(r.sc.chunks) >>)
            ELSE recognised
        /\ matchers' = IF r.advanced > 0 THEN matchers \cup { r.matcher } ELSE matchers
    /\ UNCHANGED << inputVars, pc, returned, runVars, codecVars >>

\* ++it reaches the end: the required options and the chunk count are
\* checked, the chunks are put in order, and FromArgs returns.
FinishFromArgs ==
    /\ pc = "scan"
    /\ it + 1 > Len(args)
    /\ \E v \in { Validate(Scan) } :
        /\ chunks' = v.sc.chunks
        /\ indices' = v.sc.indices
        /\ returned' = IF v.ok THEN "spec" ELSE "nullopt"
    /\ it' = it + 1
    /\ pc' = "returned"
    /\ UNCHANGED << inputVars, version, num_chunks, sha256sum, parsed, step, recognised,
                    matchers, runVars, codecVars >>

\* ------------------------------------------------------------------------
\* Run, Spawn, Exec
\* ------------------------------------------------------------------------

\* The launcher process ends with exit code c.
Exit(c) == pc' = "exited" /\ exit_code' = Some(c)

\* The process is killed by signal sig: the exit code its parent shell reports.
Killed(sig) == Exit(128 + sig)

\* Run after Spec::FromArgs: no Spec ends the run with 1.
Run_FromArgs ==
    /\ pc = "returned"
    /\ IF returned = "nullopt" THEN Exit(1) ELSE pc' = "decode" /\ UNCHANGED exit_code
    /\ UNCHANGED << inputVars, scanVars, decoded_chunk, deref, handed, built, job, spawned,
                    ret, cwd, curr_dir, child, did, codecVars >>

\* Run decodes chunks[0] and reads the result through the optional without
\* testing it: after a failed decode the read is of a disengaged optional,
\* and it crashes or yields whatever lies there.
Run_Decode ==
    /\ pc = "decode"
    /\ \E d \in { Decode(chunks[1], wild) } :
        /\ decoded_chunk' = Done(d)
        /\ IF d.ok
           THEN deref' = Some(d.val) /\ pc' = "json" /\ UNCHANGED exit_code
           ELSE \/ \E g \in Garbage : deref' = Some(g) /\ pc' = "json" /\ UNCHANGED exit_code
                \/ deref' = None /\ Killed(11)
    /\ UNCHANGED << inputVars, scanVars, handed, built, job, spawned, ret, cwd, curr_dir,
                    child, did, codecVars >>

\* A Run that calls Spawn whether or not a Job was built.
Run_FromJSONUnchecked ==
    /\ pc = "json"
    /\ handed' = deref
    /\ \E r \in { FromJSON(deref.val) } :
        /\ built' = r.outcome
        /\ job' = r.val
        /\ IF r.outcome = "job" THEN pc' = "spawn" /\ UNCHANGED exit_code
           ELSE IF r.outcome = "nullopt" THEN pc' = "spawn" /\ UNCHANGED exit_code
           ELSE Killed(6)
    /\ UNCHANGED << inputVars, scanVars, decoded_chunk, deref, spawned, ret, cwd, curr_dir,
                    child, did, codecVars >>

\* Run builds the Job from the string read; no Job ends the run with 1.
Run_FromJSON ==
    /\ pc = "json"
    /\ handed' = deref
    /\ \E r \in { FromJSON(deref.val) } :
        /\ built' = r.outcome
        /\ job' = r.val
        /\ IF r.outcome = "job" THEN pc' = "spawn" /\ UNCHANGED exit_code
           ELSE IF r.outcome = "nullopt" THEN Exit(1)
           ELSE Killed(6)
    /\ UNCHANGED << inputVars, scanVars, decoded_chunk, deref, spawned, ret, cwd, curr_dir,
                    child, did, codecVars >>

\* A Spawn that goes on to Exec after a failed change of directory.
Spawn_EnterRegardless ==
    /\ pc = "spawn"
    /\ \E order \in Orderings(DOMAIN job.env) :
        spawned' = [args |-> SpawnArgs(job), env |-> SpawnEnv(job, order, environ)]
    /\ IF job.work_dir.ok
       THEN /\ curr_dir' = cwd
            /\ \E ok \in BOOLEAN :
                IF ok
                THEN /\ cwd' = job.work_dir.val
                     /\ did' = [did EXCEPT !.chdir = TRUE]
                     /\ pc' = "exec"
                     /\ UNCHANGED exit_code
                ELSE /\ did' = [did EXCEPT !.chdir = TRUE, !.failed = @ \cup { "chdir" }]
                     /\ pc' = "exec"
                     /\ UNCHANGED << cwd, exit_code >>
       ELSE pc' = "exec" /\ UNCHANGED << curr_dir, cwd, did, exit_code >>
    /\ UNCHANGED << inputVars, scanVars, decoded_chunk, deref, handed, built, job, ret,
                    child, codecVars >>

\* Spawn up to the call of Exec: the vectors are built and the directory is
\* changed; a failed change ends Spawn, Run and main with 1.
Spawn_Enter ==
    /\ pc = "spawn"
    /\ \E order \in Orderings(DOMAIN job.env) :
        spawned' = [args |-> SpawnArgs(job), env |-> SpawnEnv(job, order, environ)]
    /\ IF job.work_dir.ok
       THEN /\ curr_dir' = cwd
            /\ \E ok \in BOOLEAN :
                IF ok
                THEN /\ cwd' = job.work_dir.val
                     /\ did' = [did EXCEPT !.chdir = TRUE]
                     /\ pc' = "exec"
                     /\ UNCHANGED exit_code
                ELSE /\ did' = [did EXCEPT !.chdir = TRUE, !.failed = @ \cup { "chdir" }]
                     /\ Exit(1)
                     /\ UNCHANGED cwd
       ELSE pc' = "exec" /\ UNCHANGED << curr_dir, cwd, did, exit_code >>
    /\ UNCHANGED << inputVars, scanVars, decoded_chunk, deref, handed, built, job, ret,
                    child, codecVars >>

\* Exec in the launcher: fork.  A failed fork makes Exec return 1.
Exec_Fork ==
    /\ pc = "exec"
    /\ \E ok \in BOOLEAN :
        IF ok
        THEN /\ child' = [NoChild EXCEPT !.state = "forked", !.cwd = cwd]
             /\ did' = [did EXCEPT !.fork = TRUE]
             /\ pc' = "wait"
             /\ UNCHANGED ret
        ELSE /\ did' = [did EXCEPT !.fork = TRUE, !.failed = @ \cup { "fork" }]
             /\ ret' = 1
             /\ pc' = "restore"
             /\ UNCHANGED child
    /\ UNCHANGED << inputVars, scanVars, decoded_chunk, deref, handed, built, job, spawned,
                    cwd, curr_dir, exit_code, codecVars >>

\* Exec in the child: execvpe replaces the process image by the job.
Child_Exec ==
    /\ child.state = "forked"
    /\ did' = [did EXCEPT !.exec = TRUE]
    /\ child' = [child EXCEPT !.state = "job", !.exe = job.executable,
                              !.argv = spawned.args, !.env = spawned.env]
    /\ UNCHANGED << inputVars, pc, scanVars, decoded_chunk, deref, handed, built, job,
                    spawned, ret, cwd, curr_dir, exit_code, codecVars >>

\* Exec in the child: execvpe fails and returns; the child returns 1 from
\* Exec, restores the directory in Spawn and returns 1 from Run and main.
Child_ExecFails ==
    /\ child.state = "forked"
    /\ did' = [did EXCEPT !.exec = TRUE, !.failed = @ \cup { "exec" }]
    /\ \E ok \in BOOLEAN :
        child' = [child EXCEPT !.state = "exited", !.code = 1,
                               !.cwd = IF job.work_dir.ok /\ ok THEN curr_dir ELSE child.cwd]
    /\ UNCHANGED << inputVars, pc, scanVars, decoded_chunk, deref, handed, built, job,
                    spawned, ret, cwd, curr_dir, exit_code, codecVars >>

\* The job terminates normally with exit status c.
Child_JobExits ==
    /\ child.state = "job"
    /\ \E c \in ExitStatuses : child' = [child EXCEPT !.state = "exited", !.code = c]
    /\ UNCHANGED << inputVars, pc, scanVars, decoded_chunk, deref, handed, built, job,
                    spawned, ret, cwd, curr_dir, did, exit_code, codecVars >>

\* Exec in the launcher: waitpid returns the status of the terminated child
\* and Exec returns 0, or waitpid fails and Exec returns 1.
Exec_Wait ==
    /\ pc = "wait"
    /\ \/ child.state = "exited" /\ ret' = 0 /\ did' = [did EXCEPT !.wait = TRUE]
       \/ ret' = 1 /\ did' = [did EXCEPT !.failed = @ \cup { "waitpid" }]
    /\ pc' = "restore"
    /\ UNCHANGED << inputVars, scanVars, decoded_chunk, deref, handed, built, job, spawned,
                    cwd, curr_dir, child, exit_code, codecVars >>

\* Spawn after Exec returning the value of Exec at once, without the change
\* back to the saved directory.
Spawn_ReturnUnrestored ==
    /\ pc = "restore"
    /\ Exit(ret)
    /\ UNCHANGED << inputVars, scanVars, decoded_chunk, deref, handed, built, job, spawned,
                    ret, cwd, curr_dir, child, did, codecVars >>

\* Spawn after Exec: the directory is restored when it was changed, a failed
\* restoration is only reported, and the value of Exec is returned through Run
\* and main.
Spawn_Return ==
    /\ pc = "restore"
    /\ IF job.work_dir.ok
       THEN \E ok \in BOOLEAN :
                IF ok
                THEN /\ cwd' = curr_dir
                     /\ did' = [did EXCEPT !.restore = TRUE]
                ELSE /\ did' = [did EXCEPT !.restore = TRUE, !.failed = @ \cup { "restore" }]
                     /\ UNCHANGED cwd
       ELSE UNCHANGED << cwd, did >>
    /\ Exit(ret)
    /\ UNCHANGED << inputVars, scanVars, decoded_chunk, deref, handed, built, job, spawned,
                    ret, curr_dir, child, codecVars >>

\* ------------------------------------------------------------------------
\* The codec and the job builder on their own
\* ------------------------------------------------------------------------

\* s without its trailing '=' characters.
RECURSIVE StripPadding(_)
StripPadding(s) ==
    IF s # << >> /\ Last(s) = padding THEN StripPadding(SubSeq(s, 1, Len(s) - 1)) ELSE s

Codec_Encode ==
    /\ pc = "codec"
    /\ input.kind = "bytes"
    /\ ~encoded.done
    /\ encoded' = Done(Some(Encode(input.s)))
    /\ UNCHANGED << inputVars, pc, scanVars, runVars, input, decoded, stripped >>

Codec_DecodeEncoded ==
    /\ pc = "codec"
    /\ encoded.done
    /\ ~decoded.done
    /\ decoded' = Done(Decode(encoded.val, wild))
    /\ UNCHANGED << inputVars, pc, scanVars, runVars, input, encoded, stripped >>

Codec_Decode ==
    /\ pc = "codec"
    /\ input.kind = "text"
    /\ ~decoded.done
    /\ decoded' = Done(Decode(input.s, wild))
    /\ UNCHANGED << inputVars, pc, scanVars, runVars, input, encoded, stripped >>

Codec_DecodeUnpadded ==
    /\ pc = "codec"
    /\ input.kind = "text"
    /\ ~stripped.done
    /\ StripPadding(input.s) # input.s
    /\ stripped' = Done(Decode(StripPadding(input.s), wild))
    /\ UNCHANGED << inputVars, pc, scanVars, runVars, input, encoded, decoded >>

\* Job::FromJSON on a parsed payload.
Job_FromJSON ==
    /\ pc = "value"
    /\ \E r \in { FromValue(payload) } : built' = r.outcome /\ job' = r.val
    /\ pc' = "built"
    /\ UNCHANGED << inputVars, scanVars, decoded_chunk, deref, handed, spawned, ret, cwd,
                    curr_dir, child, did, exit_code, codecVars >>

\* ------------------------------------------------------------------------
\* Specifications
\* ------------------------------------------------------------------------

NextArgs == ScanArg \/ FinishFromArgs

SpecArgs == InitArgs /\ [][NextArgs]_vars

\* Spec::FromArgs runs in one thread from its call to its return: a step
\* that can be taken is taken.
SpecArgsFair == InitScan /\ [][NextArgs]_vars /\ WF_vars(NextArgs)

NextRun ==
    \/ ScanArg
    \/ FinishFromArgs
    \/ Run_FromArgs
    \/ Run_Decode
    \/ Run_FromJSON
    \/ Spawn_Enter
    \/ Exec_Fork
    \/ Child_Exec
    \/ Child_ExecFails
    \/ Child_JobExits
    \/ Exec_Wait
    \/ Spawn_Return

SpecRun == InitRun /\ [][NextRun]_vars

NextCodec == Codec_Encode \/ Codec_DecodeEncoded \/ Codec_Decode \/ Codec_DecodeUnpadded

SpecCodec == InitCodec /\ [][NextCodec]_vars

NextJob == Job_FromJSON

SpecJob == InitJob /\ [][NextJob]_vars

Init == InitRun

Next == NextRun

Spec == SpecRun

\* ------------------------------------------------------------------------
\* Properties
\* ------------------------------------------------------------------------

\* The indices of the chunk flags matched on the command line.
RecognisedIndices == { recognised[k][1] : k \in 1..Len(recognised) }

\* Every index of 0..n-1 was matched exactly once and nothing else was.
ExactlyOnce(n) == Len(recognised) = n /\ RecognisedIndices = 0..(n - 1)

\* What Spec::FromArgs returned, as the optional the pure function yields.
Returned ==
    IF returned = "spec"
    THEN Some([version |-> version, num_chunks |-> num_chunks, chunks |-> chunks,
               sha256sum |-> sha256sum])
    ELSE None

\* C1: chunk reassembly is order-independent.  When the chunk flags with the
\* indices 0..n-1 (n >= 1) were matched once each, in any order, and
\* --spec-num-chunks n was matched, Spec::FromArgs returns a Spec whose
\* chunks[i] is the value of the flag with index i.
C1_OrderIndependent ==
    (returned # "none" /\ parsed.num_chunks /\ num_chunks >= 1 /\ ExactlyOnce(num_chunks))
        => /\ returned = "spec"
           /\ \A k \in 1..Len(recognised) : chunks[recognised[k][1] + 1] = recognised[k][2]

OptionNames ==
    { opt_version, opt_num_chunks, opt_sha256sum }
        \cup { opt_chunk_ \o Digit(n) : n \in 0..MaxChunks }

IsNumber(v) == v # << >> /\ Len(v) <= 9 /\ \A i \in 1..Len(v) : IsDigit(v[i])

\* v is a value the option accepts.
Accepts(name, v) == name \in { opt_version, opt_num_chunks } => IsNumber(v)

\* args[k], args[k+1] is a flag in split form.
IsSplitFlagAt(a, k) ==
    /\ k + 1 <= Len(a)
    /\ a[k] \in OptionNames
    /\ a[k - 1] \notin OptionNames
    /\ a[k + 1] \notin OptionNames
    /\ Accepts(a[k], a[k + 1])

\* args[k] is a flag in joined form.
IsJoinedFlagAt(a, k) ==
    /\ a[k - 1] \notin OptionNames
    /\ \E name \in OptionNames :
        /\ StartsWith(a[k], name \o Str("="))
        /\ Accepts(name, Substr(a[k], Len(name) + 1))

\* The command line with the split flag at k written in joined form.
JoinAt(a, k) ==
    SubSeq(a, 1, k - 1) \o << a[k] \o Str("=") \o a[k + 1] >> \o SubSeq(a, k + 2, Len(a))

\* The command line with the joined flag at k written in split form.
SplitAt(a, k) ==
    SubSeq(a, 1, k - 1)
        \o << SubSeq(a[k], 1, FindFirstOf(a[k], Ord("="))),
              Substr(a[k], FindFirstOf(a[k], Ord("=")) + 1) >>
        \o SubSeq(a, k + 1, Len(a))

\* C3: both surface forms of a flag are matched and store the same value.
\* Spec::FromArgs gives the same result on the command line and on the
\* command line with any one flag rewritten from one form to the other.
C3_FormsEquivalent ==
    returned # "none" =>
        \A k \in 2..Len(args) :
            /\ IsSplitFlagAt(args, k) => FromArgs(JoinAt(args, k)) = Returned
            /\ IsJoinedFlagAt(args, k) => FromArgs(SplitAt(args, k)) = Returned

\* C4: the string handed to Job::FromJSON is the base64 decoding of the
\* chunks concatenated in index order, so every chunk contributes to it.
C4_PayloadIsAllChunks ==
    (decoded_chunk.done /\ decoded_chunk.ok /\ handed.ok)
        => handed.val = Decode(Flatten(chunks), wild).val

\* C5: round trip.  For every byte string b, Decode(Encode(b)) succeeds and
\* equals b.
C5_RoundTrip ==
    (input.kind = "bytes" /\ encoded.done /\ decoded.done)
        => decoded.ok /\ decoded.val = input.s

\* The number of the character c in the alphabet.
Sextet(c) == (CHOOSE i \in 1..Len(abc) : abc[i] = c) - 1

InAlphabet(c) == \E i \in 1..Len(abc) : abc[i] = c

\* s is the padded base64 text of some byte string whose length is no
\* multiple of 3: whole quads of the alphabet, the last one ending in one or
\* two '=' with the unused bits of its last character zero.
CanonicalPadded(s) ==
    /\ Len(s) >= 4
    /\ Len(s) % 4 = 0
    /\ Last(s) = padding
    /\ Len(StripPadding(s)) >= Len(s) - 2
    /\ \A i \in 1..Len(StripPadding(s)) : InAlphabet(s[i])
    /\ Sextet(Last(StripPadding(s))) % (IF Len(StripPadding(s)) = Len(s) - 2 THEN 16 ELSE 4) = 0

\* C6: missing trailing padding is tolerated.  For every canonical padded
\* text, with any number of whole quads before the last one, Decode of the
\* text without its '=' succeeds and returns the bytes Decode of the text
\* returns.
C6_PaddingOptional ==
    (input.kind = "text" /\ CanonicalPadded(input.s) /\ decoded.done /\ stripped.done)
        => /\ decoded.ok
           /\ stripped.ok
           /\ stripped.val = decoded.val

\* C7: exit-code propagation.  When the job run by the child terminated
\* normally with exit status c and waitpid returned that status, the launcher
\* exits with c.
C7_ExitCodePropagated ==
    (pc = "exited" /\ did.wait /\ child.state = "exited" /\ did.failed = {})
        => exit_code = Some(child.code)

\* C8: a launch failure gives a non-zero exit code of the launcher: the
\* launcher exits non-zero when the change to work_dir, fork, or execvpe in
\* the child has failed.
C8_LaunchFailureNonZero ==
    (pc = "exited" /\ did.failed \cap { "chdir", "fork", "exec" } # {})
        => exit_code.val # 0

\* C9: after a failed decode Run ends with a non-zero exit code and passes
\* nothing on: the decode result is not read, Job::FromJSON is not called,
\* and neither chdir, fork nor execvpe is called.
C9_FailedDecodeStops ==
    (decoded_chunk.done /\ ~decoded_chunk.ok)
        => /\ ~deref.ok
           /\ ~handed.ok
           /\ built = "none"
           /\ ~did.chdir /\ ~did.fork /\ ~did.exec
           /\ pc = "exited" /\ exit_code.val # 0

IsString(j) == j.t = "string"

\* The payload has a string executable, an array-of-strings args and an
\* object-of-strings env.
MandatoryFieldsGiven(j) ==
    /\ j.t = "object"
    /\ { "executable", "args", "env" } \subseteq DOMAIN j.o
    /\ IsString(j.o["executable"])
    /\ j.o["args"].t = "array"
    /\ \A i \in 1..Len(j.o["args"].a) : IsString(j.o["args"].a[i])
    /\ j.o["env"].t = "object"
    /\ \A k \in DOMAIN j.o["env"].o : IsString(j.o["env"].o[k])

\* C10: work_dir is optional.  For a payload with the mandatory fields,
\* Job::FromJSON returns a Job whether the key work_dir is missing (absent),
\* is no string (absent) or is a string (set to it).
C10_WorkDirOptional ==
    (pc = "built" /\ MandatoryFieldsGiven(payload))
        => /\ built = "job"
           /\ job.work_dir =
                IF "work_dir" \in DOMAIN payload.o /\ IsString(payload.o["work_dir"])
                THEN Some(payload.o["work_dir"].s)
                ELSE None

\* The character c is neither of the alphabet nor the padding.
Foreign(c) == ~InAlphabet(c) /\ c # padding

\* C11: Decode fails for every text with a character that is neither of the
\* alphabet nor '=', wherever in the text the character is and whatever byte
\* it is.
C11_ForeignCharacterFails ==
    (input.kind = "text" /\ decoded.done /\ \E i \in 1..Len(input.s) : Foreign(input.s[i]))
        => ~decoded.ok

\* Some '=' of s is followed, anywhere later in s, by another character.
PaddingBeforeTail(s) ==
    \E i \in 1..Len(s) : \E j \in (i + 1)..Len(s) : s[i] = padding /\ s[j] # padding

\* C12: Decode rejects padding that is not at the true tail: every text of
\* alphabet characters and '=' in which some '=' is followed later by a
\* character other than '=' fails to decode.
C12_InteriorPaddingFails ==
    (/\ input.kind = "text"
     /\ decoded.done
     /\ \A i \in 1..Len(input.s) : ~Foreign(input.s[i])
     /\ PaddingBeforeTail(input.s))
        => ~decoded.ok

\* v is not the hexadecimal text of a SHA-256 digest, which has 64 characters.
NoDigest(v) == Len(v) # 64

\* C13: when --spec-sha256sum is given and differs from the checksum of the
\* reassembled payload, the launcher fails before proceeding: no decoding
\* result is used, no Job is built, and neither chdir, fork nor execvpe is
\* called.  (A value that is no digest differs from every checksum.)
C13_ChecksumVerified ==
    (parsed.sha256sum /\ NoDigest(sha256sum))
        => /\ ~handed.ok
           /\ built = "none"
           /\ ~did.chdir /\ ~did.fork /\ ~did.exec
           /\ pc = "exited" => exit_code.val # 0

\* The entries of the array e before its last element.
Entries(e) == SubSeq(e, 1, Len(e) - 1)

\* The key K of job.env as a string of the program.
IsJobKey(key) == \E K \in DOMAIN job.env : Str(K) = key

KeptFromParent(entry) == ~IsJobKey(EnvKey(entry))

\* C14: environment merge with override.  The array passed to execvpe has,
\* for every key K of job.env, exactly one entry for K, which is
\* K=job.env[K]; its other entries are the entries of the parent's
\* environment whose key is no key of job.env, unchanged and in their order;
\* and it ends with one null terminator.
C14_EnvOverride ==
    child.state = "job" =>
        /\ child.env # << >>
        /\ Last(child.env) = nullptr
        /\ \A i \in 1..(Len(child.env) - 1) : child.env[i] # nullptr
        /\ \A K \in DOMAIN job.env :
            /\ Cardinality({ i \in 1..(Len(child.env) - 1) :
                                EnvKey(child.env[i]) = Str(K) }) = 1
            /\ \E i \in 1..(Len(child.env) - 1) :
                child.env[i] = Str(K) \o Str("=") \o job.env[K]
        /\ SelectSeq(Entries(child.env), KeptFromParent) = SelectSeq(environ, KeptFromParent)
        /\ Len(child.env) - 1
            = Cardinality(DOMAIN job.env) + Len(SelectSeq(environ, KeptFromParent))

\* C14 witness: a job is executed whose env has a key the parent's
\* environment holds too, and the parent has entries of other keys.
C14_Witness ==
    /\ child.state = "job"
    /\ \E j \in 1..Len(environ) : IsJobKey(EnvKey(environ[j]))
    /\ \E j \in 1..Len(environ) : ~IsJobKey(EnvKey(environ[j]))
    /\ Cardinality(DOMAIN job.env) >= 2

\* C15: when work_dir is set and the change into it fails, the launch is
\* aborted: Spawn returns 1, the launcher exits with 1, and neither fork nor
\* execvpe is ever called, so no child exists.
C15_FailedChdirAborts ==
    "chdir" \in did.failed =>
        /\ pc = "exited"
        /\ exit_code = Some(1)
        /\ ~did.fork /\ ~did.exec
        /\ child = NoChild

\* C15 witness: the change into work_dir has failed.
C15_Witness == job.work_dir.ok /\ did.chdir /\ "chdir" \in did.failed /\ pc = "exited"

\* Spawn has been entered, or one of its system calls has been made.
LauncherReached ==
    \/ pc \in { "spawn", "exec", "wait", "restore" }
    \/ did.chdir \/ did.fork \/ did.exec
    \/ spawned # [args |-> << >>, env |-> << >>]
    \/ child # NoChild

\* The string handed to Job::FromJSON is no JSON, or has no "executable".
MalformedOrNoExecutable(str) ==
    JsonParse(str).t = "discarded" \/ ~Contains(JsonParse(str), "executable")

\* C16: stage ordering in Run.  Spawn, and with it chdir, fork and execvpe,
\* comes only after Spec::FromArgs and Job::FromJSON have both succeeded; when
\* Spec::FromArgs fails, the JSON is malformed or the payload has no
\* "executable", Run returns 1 and Spawn is never entered.
C16_StageOrder ==
    /\ LauncherReached => returned = "spec" /\ built = "job"
    /\ (returned = "nullopt" \/ (handed.ok /\ MalformedOrNoExecutable(handed.val)))
        => /\ ~LauncherReached
           /\ pc = "exited" => exit_code = Some(1)

\* C16 witness: Run has returned 1 for a payload without "executable".
C16_Witness ==
    /\ pc = "exited"
    /\ exit_code = Some(1)
    /\ decoded_chunk.ok
    /\ handed.ok
    /\ JsonParse(handed.val).t = "object"
    /\ ~Contains(JsonParse(handed.val), "executable")

\* C17: Job::FromJSON yields the failure value and no Job whenever the
\* payload is no JSON or a mandatory field is missing or mistyped: executable
\* no string, args no array of strings, env no object of strings.
C17_NoJobWithoutMandatory ==
    (pc = "built" /\ ~MandatoryFieldsGiven(payload)) => built = "nullopt"

\* C18: every Job that Job::FromJSON returns has a non-empty executable; a
\* payload whose executable is "" is rejected.
C18_ExecutableNonEmpty == built = "job" => job.executable # << >>

\* C19: Spec::FromArgs fails whenever no --spec-num-chunks flag is matched,
\* whatever else is on the command line, also when the chunk flags 0..k-1
\* are all there.
C19_NumChunksRequired ==
    (returned # "none" /\ "num_chunks" \notin matchers) => returned = "nullopt"

\* C19 witness: Spec::FromArgs has failed on a command line with the chunk
\* flags 0 and 1 and no --spec-num-chunks flag matched.
C19_Witness ==
    /\ returned = "nullopt"
    /\ "num_chunks" \notin matchers
    /\ Len(recognised) >= 2
    /\ ExactlyOnce(Len(recognised))

\* C20: --spec-version is required.  Spec::FromArgs returns no Spec when no
\* --spec-version flag is matched, even with --spec-num-chunks and all the
\* chunk flags there.
C20_VersionRequired ==
    (returned # "none" /\ "version" \notin matchers) => returned = "nullopt"

\* The bytes standard base64 assigns to the quadruple q of alphabet
\* characters ending in zero, one or two '=': the sextets concatenated, most
\* significant first, cut into whole bytes.
StdQuad(q) ==
    LET d == StripPadding(q)
        a == Sextet(d[1])
        b == Sextet(d[2])
        c == IF Len(d) >= 3 THEN Sextet(d[3]) ELSE 0
        e == IF Len(d) >= 4 THEN Sextet(d[4]) ELSE 0
        three == << a * 4 + b \div 16, (b % 16) * 16 + c \div 4, (c % 4) * 64 + e >>
    IN SubSeq(three, 1, Len(d) - 1)

RECURSIVE StdDecode(_)
StdDecode(s) ==
    IF s = << >> THEN << >> ELSE StdQuad(SubSeq(s, 1, 4)) \o StdDecode(SubSeq(s, 5, Len(s)))

\* s has a length that is a multiple of 4, at most two '=', all of them at
\* its very end, and alphabet characters before them.
PaddedText(s) ==
    /\ Len(s) % 4 = 0
    /\ Len(s) - Len(StripPadding(s)) <= 2
    /\ \A i \in 1..Len(StripPadding(s)) : InAlphabet(s[i])

\* C21: for every padded base64 text s (length a multiple of 4, alphabet
\* characters only, zero, one or two '=' at the very end), Decode(s) succeeds,
\* returns the bytes standard base64 assigns to s, and the number of bytes is
\* 3 * len(s) / 4 minus the number of '='.
C21_DecodeStandard ==
    (input.kind = "text" /\ decoded.done /\ PaddedText(input.s))
        => /\ decoded.ok
           /\ decoded.val = StdDecode(input.s)
           /\ Len(decoded.val)
                = (3 * Len(input.s)) \div 4 - (Len(input.s) - Len(StripPadding(input.s)))

\* A text of two quadruples, the last one with two '=', has been decoded.
C21_Witness ==
    /\ input.kind = "text"
    /\ decoded.done
    /\ decoded.ok
    /\ PaddedText(input.s)
    /\ Len(input.s) = 8
    /\ Len(StripPadding(input.s)) = 6
    /\ Len(decoded.val) = 4

\* The standard padded base64 text of the bytes b, one group of up to three
\* bytes at a time.
RECURSIVE StdEncode(_)
StdEncode(b) ==
    IF b = << >> THEN << >>
    ELSE IF Len(b) = 1
    THEN << abc[b[1] \div 4 + 1], abc[(b[1] % 4) * 16 + 1], padding, padding >>
    ELSE IF Len(b) = 2
    THEN << abc[b[1] \div 4 + 1], abc[(b[1] % 4) * 16 + b[2] \div 16 + 1],
            abc[(b[2] % 16) * 4 + 1], padding >>
    ELSE << abc[b[1] \div 4 + 1], abc[(b[1] % 4) * 16 + b[2] \div 16 + 1],
            abc[(b[2] % 16) * 4 + b[3] \div 64 + 1], abc[(b[3] % 64) + 1] >>
            \o StdEncode(SubSeq(b, 4, Len(b)))

\* C22: for every byte string b, of any byte values 0..255, Encode(b) is the
\* standard padded base64 text of b, and its length is 4 * ceil(len(b) / 3).
C22_EncodeStandard ==
    (input.kind = "bytes" /\ encoded.done)
        => /\ encoded.val = StdEncode(input.s)
           /\ Len(encoded.val) = 4 * ((Len(input.s) + 2) \div 3)

\* C23: Decode fails for every text whose length is 1 modulo 4, whatever its
\* characters.
C23_LengthOneModFourFails ==
    (input.kind = "text" /\ decoded.done /\ Len(input.s) % 4 = 1) => ~decoded.ok

\* A text of five alphabet characters has been decoded and refused.
C23_Witness ==
    /\ input.kind = "text"
    /\ decoded.done
    /\ ~decoded.ok
    /\ Len(input.s) = 5
    /\ \A i \in 1..5 : InAlphabet(input.s[i])

\* The k-th group of four characters of s has a '=' with fewer than two
\* alphabet characters before the first one.
StarvedGroup(s, k) ==
    \E i \in 1..4 :
        /\ s[4 * (k - 1) + i] = padding
        /\ \A j \in 1..(i - 1) : s[4 * (k - 1) + j] # padding
        /\ Cardinality({ j \in 1..(i - 1) : InAlphabet(s[4 * (k - 1) + j]) }) < 2

\* C24: Decode fails for every text in which some group of four characters
\* has fewer than two alphabet characters before its first '='.
C24_StarvedGroupFails ==
    (/\ input.kind = "text"
     /\ decoded.done
     /\ \E k \in 1..(Len(input.s) \div 4) : StarvedGroup(input.s, k))
        => ~decoded.ok

\* C25: a parser never commits in part.  Whenever a pass of the scan loop
\* ends with every parser reporting 0 arguments consumed (a flag of no
\* family, a value that is not wholly a decimal number, a number out of
\* range, a split flag with no next argument), spec.version, spec.num_chunks,
\* spec.sha256sum, spec.chunks, the chunk index list and every parser's parsed
\* flag are what they were before the pass.
C25_NoPartialCommit ==
    [][(ScanArg /\ step'.advanced = 0)
        => UNCHANGED << version, num_chunks, sha256sum, chunks, indices, parsed >>]_vars

\* C26: the working directory is restored.  When work_dir is set and the
\* change into it succeeded, the launcher has tried to change back to the
\* directory it was in before Spawn by the time Spawn has returned, whether
\* fork, exec or wait failed or not; when that change succeeded, the
\* launcher is in the directory it was started in.  When work_dir is absent
\* the launcher never leaves that directory.
C26_WorkDirRestored ==
    /\ (pc = "exited" /\ job.work_dir.ok /\ did.chdir /\ "chdir" \notin did.failed)
        => did.restore
    /\ (pc = "exited" /\ did.restore /\ "restore" \notin did.failed)
        => cwd = Str("/home")
    /\ ~job.work_dir.ok => (cwd = Str("/home") /\ ~did.chdir /\ ~did.restore)

\* Spawn has returned after a failed waitpid, back in the first directory.
C26_Witness ==
    /\ pc = "exited"
    /\ job.work_dir.ok
    /\ did.chdir
    /\ did.restore
    /\ did.failed = { "waitpid" }
    /\ curr_dir = Str("/home")
    /\ cwd = Str("/home")
    /\ job.work_dir.val # Str("/home")

\* C27: the scan of Spec::FromArgs.  The first argument offered to the
\* parsers is argv[1], never argv[0]; the argument offered in a pass is the
\* one offered in the pass before plus the number of arguments consumed then,
\* or plus one when nothing was consumed then; the arguments consumed in a
\* pass all exist and the cursor is never beyond the end of the vector; and
\* the scan comes to its end.
C27_ScanCursor ==
    /\ [](/\ step.at # 1
          /\ it <= Len(args) + 1
          /\ step.at # 0 => step.at + step.advanced - 1 <= Len(args))
    /\ [][ScanArg =>
            /\ step.at = 0 => step'.at = 2
            /\ step.at # 0 =>
                step'.at = step.at + (IF step.advanced > 0 THEN step.advanced ELSE 1)]_vars
    /\ <>(pc = "returned")

\* The scan of a vector whose argv[0] looks like a chunk flag has ended with a
\* pass that consumed the last two arguments.
C27_Witness ==
    /\ pc = "returned"
    /\ StartsWith(args[1], opt_chunk_)
    /\ step.advanced = 2
    /\ step.at + 1 = Len(args)
    /\ Len(recognised) = 2
    /\ it = Len(args) + 1

\* C28: a returned Spec has at least one chunk.  Whenever Spec::FromArgs
\* returns a Spec, its num_chunks is at least 1 and is the number of its
\* chunks; a command line on which no chunk flag is matched, such as one that
\* declares --spec-num-chunks 0, gets no Spec.
C28_AtLeastOneChunk ==
    /\ returned = "spec" => (num_chunks >= 1 /\ Len(chunks) = num_chunks)
    /\ (returned # "none" /\ recognised = << >>) => returned = "nullopt"

\* A command line that declares 0 chunks and has no chunk flag has been
\* refused.
C28_Witness ==
    /\ returned = "nullopt"
    /\ "num_chunks" \in matchers
    /\ parsed.num_chunks
    /\ num_chunks = 0
    /\ chunks = << >>
    /\ recognised = << >>

====
